---- MODULE Spec2Model ----
(***************************************************************************)
(* TinyFloat (src/src/index.ts): a decimal class that stores a number as a *)
(* BigInt scaled by 10^(precision + 1) and renders it round-half-up.       *)
(*                                                                         *)
(* Strings are sequences of one-character strings.  A bigint is a record   *)
(* [neg, mag]: a sign and the decimal digits of the absolute value, most   *)
(* significant first, without leading zeros (zero is [FALSE, <<0>>]), so    *)
(* that magnitudes of any size (10^17 at the default precision, 10^24 and  *)
(* beyond) are computed digit by digit.                                    *)
(***************************************************************************)
EXTENDS Integers, Sequences, FiniteSets

\* heap: the TinyFloat instances constructed so far, by reference 1..Len(heap).
\* log:  the calls made so far, each with what it returned or threw.
VARIABLES heap, log

vars == <<heap, log>>

(***************************************************************************)
(* Bounds of the exploration.                                              *)
(***************************************************************************)
\* Longest literal of the exhaustive literal set.
MaxLen == 4
\* Largest precision of the exhaustive precision set 0..MaxScale.
MaxScale == 2
\* Largest number of calls in one run.
MaxCalls == 3
\* A precision more than 23 digits away from every precision of 0..MaxScale.
FarScale == 26

(***************************************************************************)
(* ECMAScript BigInt arithmetic on decimal digit sequences.                *)
(***************************************************************************)
Max(a, b) == IF a >= b THEN a ELSE b

Digit == 0..9

Zeros(n) == [i \in 1..n |-> 0]

\* The digits without leading zeros; at least one digit stays.
Norm(s) ==
  IF \A i \in 1..Len(s) : s[i] = 0 THEN <<0>>
  ELSE SubSeq(s, CHOOSE i \in 1..Len(s) : s[i] # 0 /\ \A j \in 1..(i - 1) : s[j] = 0, Len(s))

PadL(s, n) == Zeros(n - Len(s)) \o s

\* -1, 0 or 1 as a is below, equal to or above b (both without leading zeros).
MagCmp(a, b) ==
  IF Len(a) # Len(b) THEN (IF Len(a) < Len(b) THEN -1 ELSE 1)
  ELSE IF a = b THEN 0
  ELSE LET i == CHOOSE k \in 1..Len(a) : a[k] # b[k] /\ \A j \in 1..(k - 1) : a[j] = b[j]
       IN IF a[i] < b[i] THEN -1 ELSE 1

\* a + b, digit by digit from the last one, c being the carry.
MagAdd(a, b) ==
  LET n == Max(Len(a), Len(b))
      x == PadL(a, n)
      y == PadL(b, n)
      sum[i \in 0..n, c \in 0..1] ==
        IF i = 0 THEN <<c>>
        ELSE LET t == x[i] + y[i] + c IN Append(sum[i - 1, t \div 10], t % 10)
  IN Norm(sum[n, 0])

\* a - b for a >= b, digit by digit from the last one, c being the borrow.
MagSub(a, b) ==
  LET n == Len(a)
      y == PadL(b, n)
      dif[i \in 0..n, c \in 0..1] ==
        IF i = 0 THEN <<>>
        ELSE LET t == a[i] - y[i] - c
             IN Append(dif[i - 1, IF t < 0 THEN 1 ELSE 0], IF t < 0 THEN t + 10 ELSE t)
  IN Norm(dif[n, 0])

\* a * d for one digit d.
MagMulDigit(a, d) ==
  LET prod[i \in 0..Len(a), c \in Digit] ==
        IF i = 0 THEN <<c>>
        ELSE LET t == a[i] * d + c IN Append(prod[i - 1, t \div 10], t % 10)
  IN Norm(prod[Len(a), 0])

\* 1 followed by zeros only.
IsPow10(b) == b[1] = 1 /\ \A i \in 2..Len(b) : b[i] = 0

\* a times b, one digit of b after the other, acc being a times the digits of
\* b before digit i.
MagMulBy(a, b) ==
  LET mul[i \in 1..(Len(b) + 1), acc \in Seq(Digit)] ==
        IF i > Len(b) THEN acc
        ELSE mul[i + 1, MagAdd(Norm(Append(acc, 0)), MagMulDigit(a, b[i]))]
  IN mul[1, <<0>>]

\* a * b
MagMul(a, b) ==
  IF IsPow10(b) THEN Norm(a \o Zeros(Len(b) - 1))
  ELSE IF IsPow10(a) THEN Norm(b \o Zeros(Len(a) - 1))
  ELSE IF Len(a) < Len(b) THEN MagMulBy(b, a)
  ELSE MagMulBy(a, b)

\* The quotient and the remainder of a by b > 0: long division, one digit of
\* a after the other, q and r being the quotient and the remainder so far.
MagDivMod(a, b) ==
  LET mults == [d \in Digit |-> MagMulDigit(b, d)]
      digit(r) ==
        CHOOSE d \in Digit :
          /\ MagCmp(mults[d], r) <= 0
          /\ d = 9 \/ MagCmp(mults[d + 1], r) > 0
      step[i \in 1..(Len(a) + 1), q \in Seq(Digit), r \in Seq(Digit)] ==
        IF i > Len(a) THEN [q |-> q, r |-> r]
        ELSE LET r1 == Norm(Append(r, a[i]))
                 d == digit(r1)
             IN step[i + 1, Append(q, d), MagSub(r1, mults[d])]
      k == Len(b) - 1
  IN IF MagCmp(a, b) < 0 THEN [q |-> <<0>>, r |-> a]
     ELSE IF IsPow10(b) THEN [q |-> SubSeq(a, 1, Len(a) - k), r |-> Norm(SubSeq(a, Len(a) - k + 1, Len(a)))]
     ELSE LET res == step[1, <<>>, <<0>>] IN [q |-> Norm(res.q), r |-> res.r]

Big(neg, mag) == [neg |-> neg /\ mag # <<0>>, mag |-> mag]

BigZero == Big(FALSE, <<0>>)

BigIsZero(a) == a.mag = <<0>>

\* a < 0n
BigIsNeg(a) == a.neg

\* -a
BigNeg(a) == Big(~a.neg, a.mag)

\* a + b
BigAdd(a, b) ==
  IF a.neg = b.neg THEN Big(a.neg, MagAdd(a.mag, b.mag))
  ELSE IF MagCmp(a.mag, b.mag) >= 0 THEN Big(a.neg, MagSub(a.mag, b.mag))
  ELSE Big(b.neg, MagSub(b.mag, a.mag))

\* a - b
BigSub(a, b) == BigAdd(a, BigNeg(b))

\* a * b
BigMul(a, b) == Big(a.neg # b.neg, MagMul(a.mag, b.mag))

\* a / b for b # 0n: the quotient truncated toward zero.
BigDiv(a, b) == Big(a.neg # b.neg, MagDivMod(a.mag, b.mag).q)

\* a % b for b # 0n: the remainder, with the sign of the dividend.
BigRem(a, b) == Big(a.neg, MagDivMod(a.mag, b.mag).r)

\* 10n ** BigInt(n)
BigPow10(n) == Big(FALSE, <<1>> \o Zeros(n))

\* a >= b
BigGe(a, b) ==
  IF a.neg # b.neg THEN b.neg
  ELSE IF a.neg THEN MagCmp(a.mag, b.mag) <= 0
  ELSE MagCmp(a.mag, b.mag) >= 0

BigFive == Big(FALSE, <<5>>)

BigTen == Big(FALSE, <<1, 0>>)

(***************************************************************************)
(* Outcomes: a call returns a value or throws.                             *)
(***************************************************************************)
Ok(v) == [err |-> "", val |-> v]

Throw(e, v) == [err |-> e, val |-> v]

(***************************************************************************)
(* ECMAScript strings, as sequences of characters.                         *)
(***************************************************************************)
DigitChar == <<"0", "1", "2", "3", "4", "5", "6", "7", "8", "9">>

DigitChars == {DigitChar[i] : i \in 1..10}

DigitVal(c) == (CHOOSE i \in 1..10 : DigitChar[i] = c) - 1

Min(a, b) == IF a <= b THEN a ELSE b

\* str.indexOf(c): the 0-based place of the first c, or -1.
indexOf(str, c) ==
  IF \E i \in 1..Len(str) : str[i] = c
  THEN (CHOOSE i \in 1..Len(str) : str[i] = c /\ \A j \in 1..(i - 1) : str[j] # c) - 1
  ELSE -1

\* str.slice(from, to) for 0 <= from: the characters at the 0-based places
\* from..to-1, as many as the string holds.
slice(str, from, to) == SubSeq(str, from + 1, Min(to, Len(str)))

\* c.repeat(n)
repeat(c, n) == [i \in 1..n |-> c]

\* str.padStart(n, c)
padStart(str, n, c) == repeat(c, n - Len(str)) \o str

\* bigint.toString()
BigToString(a) ==
  (IF a.neg THEN <<"-">> ELSE <<>>) \o [i \in 1..Len(a.mag) |-> DigitChar[a.mag[i] + 1]]

\* BigInt(str) for a string without white space and without a radix prefix
\* (0x, 0o, 0b): the empty string is 0n, an optional sign followed by one or
\* more decimal digits is that integer, anything else throws a SyntaxError.
StringToBigInt(str) ==
  LET signed == str # <<>> /\ str[1] \in {"-", "+"}
      body == IF signed THEN Tail(str) ELSE str
  IN IF str = <<>> THEN Ok(BigZero)
     ELSE IF body # <<>> /\ \A i \in 1..Len(body) : body[i] \in DigitChars
     THEN Ok(Big(str[1] = "-", Norm([i \in 1..Len(body) |-> DigitVal(body[i])])))
     ELSE Throw("SyntaxError", BigZero)

\* The doubles 10 ** n for n > 22, digit by digit.  No double is 10^n there
\* (5^n is above 2^53); the table holds the double nearest to 10^n.  It leaves
\* out n = 23: 10^23 lies halfway between two doubles, and which of them
\* 10 ** 23 is depends on the engine's pow.
InexactPow10 ==
  [n \in 24..28 |->
     CASE n = 24 -> <<9, 9, 9, 9, 9, 9, 9, 9, 9, 9, 9, 9, 9, 9, 9, 9, 8, 3, 2, 2, 2, 7, 8, 4>>
       [] n = 25 -> <<1, 0, 0, 0, 0, 0, 0, 0, 0, 0, 0, 0, 0, 0, 0, 0, 0, 9, 0, 5, 9, 6, 9, 6, 6, 4>>
       [] n = 26 -> <<1, 0, 0, 0, 0, 0, 0, 0, 0, 0, 0, 0, 0, 0, 0, 0, 0, 4, 7, 6, 4, 7, 2, 9, 3, 4, 4>>
       [] n = 27 -> <<1, 0, 0, 0, 0, 0, 0, 0, 0, 0, 0, 0, 0, 0, 0, 0, 0, 1, 3, 2, 8, 7, 5, 5, 5, 0, 7, 2>>
       [] n = 28 -> <<9, 9, 9, 9, 9, 9, 9, 9, 9, 9, 9, 9, 9, 9, 9, 9, 5, 8, 3, 1, 1, 9, 7, 3, 6, 8, 3, 2>>]

\* BigInt(10 ** n): the double 10 ** n is 10^n exactly up to n = 22 (5^22 is
\* below 2^53) and a neighbouring binary64 value above that.
NumberPow10(n) == IF n <= 22 THEN BigPow10(n) ELSE Big(FALSE, InexactPow10[n])

Abs(n) == IF n < 0 THEN -n ELSE n

(***************************************************************************)
(* class TinyFloat                                                         *)
(***************************************************************************)
defaultPrecision == 16

\* An optional argument: <<>> is undefined, <<v>> is v.
Undefined == <<>>

Some(v) == <<v>>

\* opt ?? dflt
Nullish(opt, dflt) == IF opt = Undefined THEN dflt ELSE opt[1]

\* The constructor's first argument: nothing, a string or a TinyFloat; or, the
\* type annotation left aside, a number, given by the literal String(n) of it.
ArgNone == [str |-> <<>>, kind |-> "undefined", ref |-> 0]

ArgStr(s) == [str |-> s, kind |-> "string", ref |-> 0]

ArgRef(r) == [str |-> <<>>, kind |-> "TinyFloat", ref |-> r]

ArgNum(s) == [str |-> s, kind |-> "number", ref |-> 0]

\* tf ? ... : ... for a string, a number or undefined tf: the empty string, 0
\* and undefined are false.
ToBoolean(tf) ==
  CASE tf.kind = "string" -> tf.str # <<>>
    [] tf.kind = "number" -> tf.str # <<"0">>
    [] OTHER -> FALSE

\* parse without the guard digit: precision fractional digits are kept.
parseNoGuard(str, precision) ==
  LET digits == precision
      point == indexOf(str, ".")
  IN IF point = -1
     THEN StringToBigInt(str \o repeat("0", digits))
     ELSE LET intPart == slice(str, 0, point)
              floatPart == slice(str, point + 1, point + 1 + digits)
          IN StringToBigInt(intPart \o floatPart \o repeat("0", digits - Len(floatPart)))

\* parse that rounds the guard digit on the digit after it instead of
\* dropping what follows it.
parseRounding(str, precision) ==
  LET digits == precision + 1
      point == indexOf(str, ".")
  IN IF point = -1
     THEN StringToBigInt(str \o repeat("0", digits))
     ELSE LET intPart == slice(str, 0, point)
              floatPart == slice(str, point + 1, point + 1 + digits)
              next == slice(str, point + 1 + digits, point + 2 + digits)
              int == StringToBigInt(intPart \o floatPart \o repeat("0", digits - Len(floatPart)))
              up == next # <<>> /\ next[1] \in {"5", "6", "7", "8", "9"}
              one == Big(str[1] = "-", <<1>>)
          IN IF int.err = "" /\ up THEN Ok(BigAdd(int.val, one)) ELSE int

\* TinyFloat.parse(str, precision)
parse(str, precision) ==
  LET digits == precision + 1
      point == indexOf(str, ".")
  IN IF point = -1
     THEN StringToBigInt(str \o repeat("0", digits))
     ELSE LET intPart == slice(str, 0, point)
              floatPart == slice(str, point + 1, point + 1 + digits)
          IN StringToBigInt(intPart \o floatPart \o repeat("0", digits - Len(floatPart)))

\* TinyFloat.parse(tf, precision) for the string or the number that tf is: a
\* number has no indexOf, and str.indexOf(".") throws a TypeError.
parseOf(tf, precision) ==
  IF tf.kind = "number" THEN Throw("TypeError", BigZero) ELSE parse(tf.str, precision)

\* transpose whose division rounds toward minus infinity.
transposeFloor(this, precision) ==
  IF precision = this.precision THEN this.int
  ELSE LET pow == NumberPow10(Abs(this.precision - precision))
           quot == BigDiv(this.int, pow)
           floor == IF BigIsNeg(this.int) /\ ~BigIsZero(BigRem(this.int, pow))
                    THEN BigSub(quot, Big(FALSE, <<1>>)) ELSE quot
       IN IF this.precision > precision THEN floor ELSE BigMul(this.int, pow)

\* this.transpose(precision)
transpose(this, precision) ==
  IF precision = this.precision THEN this.int
  ELSE LET pow == NumberPow10(Abs(this.precision - precision))
       IN IF this.precision > precision THEN BigDiv(this.int, pow) ELSE BigMul(this.int, pow)

\* toString without padStart: the zeros between the point and the first
\* significant fractional digit are lost.
toStringNoPad(this, precision) ==
  LET precisionToUse == Nullish(precision, this.precision)
      int == transpose(this, precisionToUse)
      absInt == IF BigIsNeg(int) THEN BigNeg(int) ELSE int
      pow == BigPow10(precisionToUse + 1)
      paddedFloatPart == BigRem(absInt, pow)
      rounding == IF BigGe(BigRem(paddedFloatPart, BigTen), BigFive) THEN BigTen ELSE BigZero
      adjustedInt == BigAdd(absInt, rounding)
      intPart == BigDiv(adjustedInt, pow)
      floatPart == BigRem(adjustedInt, pow)
  IN (IF BigIsNeg(int) THEN <<"-">> ELSE <<>>)
       \o BigToString(intPart)
       \o <<".">>
       \o slice(BigToString(floatPart), 0, precisionToUse)

\* this.toString(precision)
toString(this, precision) ==
  LET precisionToUse == Nullish(precision, this.precision)
      int == transpose(this, precisionToUse)
      absInt == IF BigIsNeg(int) THEN BigNeg(int) ELSE int
      pow == BigPow10(precisionToUse + 1)
      paddedFloatPart == BigRem(absInt, pow)
      rounding == IF BigGe(BigRem(paddedFloatPart, BigTen), BigFive) THEN BigTen ELSE BigZero
      adjustedInt == BigAdd(absInt, rounding)
      intPart == BigDiv(adjustedInt, pow)
      floatPart == BigRem(adjustedInt, pow)
  IN (IF BigIsNeg(int) THEN <<"-">> ELSE <<>>)
       \o BigToString(intPart)
       \o <<".">>
       \o slice(padStart(BigToString(floatPart), precisionToUse + 1, "0"), 0, precisionToUse)

\* A constructor that brings the TinyFloat it is given to the precision
\* passed with it.
constructorRescaling(h, tf, precision) ==
  IF tf.kind = "TinyFloat"
  THEN LET p == Nullish(precision, h[tf.ref].precision)
       IN Ok([int |-> transpose(h[tf.ref], p), precision |-> p])
  ELSE LET p == Nullish(precision, defaultPrecision)
           int == IF ToBoolean(tf) THEN parseOf(tf, p) ELSE Ok(BigZero)
       IN IF int.err # "" THEN Throw(int.err, [int |-> BigZero, precision |-> p])
          ELSE Ok([int |-> int.val, precision |-> p])

\* new TinyFloat(tf, precision) on heap h: the instance's fields, or the error
\* parse throws.
constructor(h, tf, precision) ==
  IF tf.kind = "TinyFloat"
  THEN Ok([int |-> h[tf.ref].int, precision |-> h[tf.ref].precision])
  ELSE LET p == Nullish(precision, defaultPrecision)
           int == IF ToBoolean(tf) THEN parseOf(tf, p) ELSE Ok(BigZero)
       IN IF int.err # "" THEN Throw(int.err, [int |-> BigZero, precision |-> p])
          ELSE Ok([int |-> int.val, precision |-> p])

\* this.set(int, precision), this being the instance at ref of heap h.
set(h, ref, int, precision) ==
  [h EXCEPT ![ref] = [int |-> int, precision |-> precision]]

\* fromBigInt that sets the int and leaves the precision new TinyFloat() has.
fromBigIntDefaultPrecision(h, int, precision) ==
  LET tf == Len(h) + 1
      h1 == Append(h, constructor(h, ArgNone, Undefined).val)
  IN [heap |-> set(h1, tf, int, h1[tf].precision), ref |-> tf]

\* TinyFloat.fromBigInt(int, precision): the heap with the new instance, and
\* the reference to it.
fromBigInt(h, int, precision) ==
  LET tf == Len(h) + 1
      h1 == Append(h, constructor(h, ArgNone, Undefined).val)
  IN [heap |-> set(h1, tf, int, precision), ref |-> tf]

\* withPresicion that changes the precision and leaves the int as it is.
withPresicionRelabel(h, ref, precision) ==
  IF h[ref].precision = precision THEN [heap |-> h, ref |-> ref]
  ELSE fromBigInt(h, h[ref].int, precision)

\* withPresicion that rounds the int half away from zero, instead of cutting
\* it, when it lowers the precision.
withPresicionRounding(h, ref, precision) ==
  IF h[ref].precision = precision THEN [heap |-> h, ref |-> ref]
  ELSE IF h[ref].precision < precision
  THEN fromBigInt(h, transpose(h[ref], precision), precision)
  ELSE LET pow == NumberPow10(h[ref].precision - precision)
           half == BigDiv(pow, Big(FALSE, <<2>>))
           abs == Big(FALSE, h[ref].int.mag)
       IN fromBigInt(h, Big(h[ref].int.neg, BigDiv(BigAdd(abs, half), pow).mag), precision)

\* this.withPresicion(precision), this being the instance at ref.
withPresicion(h, ref, precision) ==
  IF h[ref].precision = precision THEN [heap |-> h, ref |-> ref]
  ELSE fromBigInt(h, transpose(h[ref], precision), precision)

\* argument that takes the int of a TinyFloat operand as it is, at whatever
\* precision the operand has.
argumentUnconverted(h, ref, tf) ==
  IF tf.kind = "TinyFloat" THEN Ok(h[tf.ref].int)
  ELSE parseOf(tf, h[ref].precision)

\* argument that parses a literal operand at the default precision.
argumentAtDefault(h, ref, tf) ==
  IF tf.kind = "TinyFloat"
  THEN LET w == withPresicion(h, tf.ref, h[ref].precision) IN Ok(w.heap[w.ref].int)
  ELSE parseOf(tf, defaultPrecision)

\* this.argument(tf): the operand as a bigint at this.precision.
argument(h, ref, tf) ==
  IF tf.kind = "TinyFloat"
  THEN LET w == withPresicion(h, tf.ref, h[ref].precision) IN Ok(w.heap[w.ref].int)
  ELSE parseOf(tf, h[ref].precision)

\* What a method hands back: the heap after it and the instance it returns,
\* or the error it throws (the heap is then the one it started with).
Returns(fb) == [err |-> "", heap |-> fb.heap, ref |-> fb.ref]

Throws(e, h) == [err |-> e, heap |-> h, ref |-> 0]

\* a / b on bigints: a RangeError when b is 0n.
BigDivide(a, b) == IF BigIsZero(b) THEN Throw("RangeError", BigZero) ELSE Ok(BigDiv(a, b))

\* a % b on bigints: a RangeError when b is 0n.
BigRemainder(a, b) == IF BigIsZero(b) THEN Throw("RangeError", BigZero) ELSE Ok(BigRem(a, b))

\* add that sets the sum on this and returns this.
addInPlace(h, ref, tf) ==
  LET a == argument(h, ref, tf)
  IN IF a.err # "" THEN Throws(a.err, h)
     ELSE Returns([heap |-> set(h, ref, BigAdd(h[ref].int, a.val), h[ref].precision), ref |-> ref])

\* this.add(tf)
add(h, ref, tf) ==
  LET a == argument(h, ref, tf)
  IN IF a.err # "" THEN Throws(a.err, h)
     ELSE Returns(fromBigInt(h, BigAdd(h[ref].int, a.val), h[ref].precision))

\* sub with its operands swapped: the argument minus this.
subSwapped(h, ref, tf) ==
  LET a == argument(h, ref, tf)
  IN IF a.err # "" THEN Throws(a.err, h)
     ELSE Returns(fromBigInt(h, BigSub(a.val, h[ref].int), h[ref].precision))

\* this.sub(tf)
sub(h, ref, tf) ==
  LET a == argument(h, ref, tf)
  IN IF a.err # "" THEN Throws(a.err, h)
     ELSE Returns(fromBigInt(h, BigSub(h[ref].int, a.val), h[ref].precision))

\* this.mul(tf)
mul(h, ref, tf) ==
  LET a == argument(h, ref, tf)
  IN IF a.err # "" THEN Throws(a.err, h)
     ELSE Returns(fromBigInt(h,
                             BigDiv(BigMul(h[ref].int, a.val), NumberPow10(h[ref].precision + 1)),
                             h[ref].precision))

\* div that answers zero for a zero divisor instead of dividing by it.
divZeroGuarded(h, ref, tf) ==
  LET a == argument(h, ref, tf)
      q == BigDivide(BigMul(h[ref].int, NumberPow10(h[ref].precision + 1)), a.val)
  IN IF a.err # "" THEN Throws(a.err, h)
     ELSE IF q.err # "" THEN Returns(fromBigInt(h, BigZero, h[ref].precision))
     ELSE Returns(fromBigInt(h, q.val, h[ref].precision))

\* this.div(tf)
div(h, ref, tf) ==
  LET a == argument(h, ref, tf)
      q == BigDivide(BigMul(h[ref].int, NumberPow10(h[ref].precision + 1)), a.val)
  IN IF a.err # "" THEN Throws(a.err, h)
     ELSE IF q.err # "" THEN Throws(q.err, h)
     ELSE Returns(fromBigInt(h, q.val, h[ref].precision))

\* mod that answers this for a zero divisor instead of dividing by it.
modZeroGuarded(h, ref, tf) ==
  LET a == argument(h, ref, tf)
      r == BigRemainder(h[ref].int, a.val)
  IN IF a.err # "" THEN Throws(a.err, h)
     ELSE IF r.err # "" THEN Returns(fromBigInt(h, h[ref].int, h[ref].precision))
     ELSE Returns(fromBigInt(h, r.val, h[ref].precision))

\* mod with the floored remainder, which takes the sign of the divisor.
modFloored(h, ref, tf) ==
  LET a == argument(h, ref, tf)
      r == BigRemainder(h[ref].int, a.val)
      floored == IF ~BigIsZero(r.val) /\ BigIsNeg(r.val) # BigIsNeg(a.val)
                 THEN BigAdd(r.val, a.val) ELSE r.val
  IN IF a.err # "" THEN Throws(a.err, h)
     ELSE IF r.err # "" THEN Throws(r.err, h)
     ELSE Returns(fromBigInt(h, floored, h[ref].precision))

\* this.mod(tf)
mod(h, ref, tf) ==
  LET a == argument(h, ref, tf)
      r == BigRemainder(h[ref].int, a.val)
  IN IF a.err # "" THEN Throws(a.err, h)
     ELSE IF r.err # "" THEN Throws(r.err, h)
     ELSE Returns(fromBigInt(h, r.val, h[ref].precision))

(***************************************************************************)
(* The calls a program makes, and the log of them.                         *)
(***************************************************************************)
Call(op, this, tf, precision) ==
  [op |-> op, this |-> this, tf |-> tf, precision |-> precision]

RetRef(r) == [kind |-> "TinyFloat", ref |-> r, str |-> <<>>, err |-> ""]

RetStr(s) == [kind |-> "string", ref |-> 0, str |-> s, err |-> ""]

RetThrow(e) == [kind |-> "throw", ref |-> 0, str |-> <<>>, err |-> e]

Entry(c, r) == [call |-> c, ret |-> r]

\* A method call that returns an instance or throws.
Invoke(c, m) ==
  /\ heap' = m.heap
  /\ log' = Append(log, Entry(c, IF m.err # "" THEN RetThrow(m.err) ELSE RetRef(m.ref)))

Init ==
  /\ heap = <<>>
  /\ log = <<>>

\* new TinyFloat(tf, precision)
New(tf, precision) ==
  /\ Len(log) < MaxCalls
  /\ LET c == constructor(heap, tf, precision)
     IN Invoke(Call("new", 0, tf, precision),
               IF c.err # "" THEN Throws(c.err, heap)
               ELSE Returns([heap |-> Append(heap, c.val), ref |-> Len(heap) + 1]))

\* heap[ref].add(tf)
Add(ref, tf) ==
  /\ Len(log) < MaxCalls
  /\ Invoke(Call("add", ref, tf, Undefined), add(heap, ref, tf))

\* heap[ref].sub(tf)
Sub(ref, tf) ==
  /\ Len(log) < MaxCalls
  /\ Invoke(Call("sub", ref, tf, Undefined), sub(heap, ref, tf))

\* heap[ref].mul(tf)
Mul(ref, tf) ==
  /\ Len(log) < MaxCalls
  /\ Invoke(Call("mul", ref, tf, Undefined), mul(heap, ref, tf))

\* heap[ref].div(tf)
Div(ref, tf) ==
  /\ Len(log) < MaxCalls
  /\ Invoke(Call("div", ref, tf, Undefined), div(heap, ref, tf))

\* heap[ref].mod(tf)
Mod(ref, tf) ==
  /\ Len(log) < MaxCalls
  /\ Invoke(Call("mod", ref, tf, Undefined), mod(heap, ref, tf))

\* heap[ref].withPresicion(precision)
WithPresicion(ref, precision) ==
  /\ Len(log) < MaxCalls
  /\ Invoke(Call("withPresicion", ref, ArgNone, Some(precision)),
            Returns(withPresicion(heap, ref, precision)))

\* heap[ref].toString(precision)
ToString(ref, precision) ==
  /\ Len(log) < MaxCalls
  /\ heap' = heap
  /\ log' = Append(log, Entry(Call("toString", ref, ArgNone, precision),
                              RetStr(toString(heap[ref], precision))))

(***************************************************************************)
(* Inputs.                                                                 *)
(***************************************************************************)
Scales == 0..MaxScale

\* A precision argument: none (the default precision), or one of Scales.
OptScales == {Undefined} \cup {Some(p) : p \in Scales}

\* The literals of the arithmetic runs: zero, values of both signs with up
\* to two fractional digits, and a malformed one.
ArithLiterals ==
  { <<"0">>, <<"0", ".", "5">>, <<"-", "1", ".", "2", "5">>, <<"2">>, <<"e">> }

ArithArgs(h) == {ArgStr(l) : l \in ArithLiterals} \cup {ArgRef(r) : r \in 1..Len(h)}

Next ==
  \/ \E l \in ArithLiterals, p \in Scales : New(ArgStr(l), Some(p))
  \/ \E r \in 1..Len(heap), p \in OptScales : New(ArgRef(r), p)
  \/ \E r \in 1..Len(heap), tf \in ArithArgs(heap) : Add(r, tf)
  \/ \E r \in 1..Len(heap), tf \in ArithArgs(heap) : Sub(r, tf)
  \/ \E r \in 1..Len(heap), tf \in ArithArgs(heap) : Mul(r, tf)
  \/ \E r \in 1..Len(heap), tf \in ArithArgs(heap) : Div(r, tf)
  \/ \E r \in 1..Len(heap), tf \in ArithArgs(heap) : Mod(r, tf)
  \/ \E r \in 1..Len(heap), p \in Scales : WithPresicion(r, p)
  \/ \E r \in 1..Len(heap), p \in OptScales : ToString(r, p)

Spec == Init /\ [][Next]_vars

(***************************************************************************)
(* Construction and rendering alone: every string over Alphabet of at most *)
(* MaxLen characters, and the documented examples, constructed at every    *)
(* precision and then rendered at every precision, and those constructed   *)
(* at a precision of 0..MaxScale at FarScale as well.                      *)
(***************************************************************************)
\* A sign, a point, a zero, a digit below five, the half, a nine and a
\* character no decimal literal holds.
Alphabet == {"-", ".", "0", "4", "5", "9", "e"}

Literals == UNION {[1..k -> Alphabet] : k \in 0..MaxLen}

\* Literals beyond MaxLen, each at one precision: those of README.md and of
\* tests.ts, and others with digits beyond the precision, with a guard digit
\* that rounds, with twenty digits and with a malformed tail.
Examples ==
  { [lit |-> <<"1", "2", ".", "3", "4">>, precision |-> Undefined],
    [lit |-> <<"0", ".", "1", "2", "3", "4">>, precision |-> Undefined],
    [lit |-> <<"0", ".", "1", "2", "3", "4", "5", "6", "7", "8", "9">>, precision |-> Some(5)],
    [lit |-> <<"0", ".", "1", "2", "3", "4", "5", "6", "7", "8", "9">>, precision |-> Some(2)],
    [lit |-> <<"0", ".", "9", "8", "7", "6", "5", "4", "3", "2", "1">>, precision |-> Some(2)],
    [lit |-> <<"9", ".", "9">>, precision |-> Some(0)],
    [lit |-> <<"-", "1", ".", "2", "3", "4", "5">>, precision |-> Some(3)],
    [lit |-> <<"-", "3", "2", "1", ".", "1", "2", "3", "4", "5", "6", "7", "8", "9">>, precision |-> Some(5)],
    [lit |-> <<"-", "0", ".", "0", "4">>, precision |-> Some(1)],
    [lit |-> <<"-", "0", ".", "5">>, precision |-> Some(1)],
    [lit |-> <<"1", "2", "3", "4", "5", "6", "7", "8", "9", "0", "1", "2", "3", "4", "5", "6", "7", "8", "9", "0">>, precision |-> Undefined],
    [lit |-> <<"1", ".", "5", "e">>, precision |-> Some(0)],
    [lit |-> <<"1", ".", "2", ".", "3">>, precision |-> Some(1)] }

NextLit ==
  \/ Len(log) = 0 /\ \E l \in Literals, p \in OptScales : New(ArgStr(l), p)
  \/ Len(log) = 0 /\ \E e \in Examples : New(ArgStr(e.lit), e.precision)
  \/ Len(log) = 1 /\ Len(heap) = 1 /\ \E p \in OptScales : ToString(1, p)
  \/ Len(log) = 1 /\ Len(heap) = 1 /\ heap[1].precision \in Scales /\ ToString(1, Some(FarScale))

SpecLit == Init /\ [][NextLit]_vars

(***************************************************************************)
(* What the properties are stated with: the calls of the log, decimal      *)
(* literals read as text, and decimal arithmetic on numerals, none of it   *)
(* through the operators of the class.                                     *)
(***************************************************************************)
Entries == 1..Len(log)

Arith == {"add", "sub", "mul", "div", "mod"}

\* The native integer a bigint of at most nine digits is.
ToInt(a) ==
  LET v[i \in 0..Len(a.mag)] == IF i = 0 THEN 0 ELSE v[i - 1] * 10 + a.mag[i]
  IN IF a.neg THEN -v[Len(a.mag)] ELSE v[Len(a.mag)]

LitNeg(l) == l # <<>> /\ l[1] = "-"

LitBody(l) == IF LitNeg(l) THEN Tail(l) ELSE l

Points(s) == {i \in 1..Len(s) : s[i] = "."}

\* The characters before the first point, and those after it.
LitInt(l) ==
  LET b == LitBody(l)
  IN IF Points(b) = {} THEN b
     ELSE SubSeq(b, 1, (CHOOSE i \in Points(b) : \A j \in Points(b) : i <= j) - 1)

LitFrac(l) ==
  LET b == LitBody(l)
  IN IF Points(b) = {} THEN <<>>
     ELSE SubSeq(b, (CHOOSE i \in Points(b) : \A j \in Points(b) : i <= j) + 1, Len(b))

AllDigits(s) == \A i \in 1..Len(s) : s[i] \in DigitChars

\* A decimal literal: an optional "-", digits without a superfluous leading
\* zero, and optionally a point and fractional digits.
WellFormed(l) ==
  /\ Cardinality(Points(LitBody(l))) <= 1
  /\ LitInt(l) # <<>>
  /\ AllDigits(LitInt(l))
  /\ AllDigits(LitFrac(l))
  /\ Len(LitInt(l)) = 1 \/ LitInt(l)[1] # "0"

\* A malformed literal: the empty string, more than one point, or a
\* character that is no digit, no point and no leading sign.
Malformed(l) ==
  \/ l = <<>>
  \/ Cardinality(Points(l)) > 1
  \/ \E i \in 1..Len(l) : l[i] \notin DigitChars \cup {"."} /\ ~(i = 1 /\ l[i] = "-")

\* A numeral is a string of digits with one point, with or without "-".
AllZero(s) == \A i \in 1..Len(s) : s[i] \in {"0", "."}

\* Two numerals of the same layout that denote the same number: the same
\* digits, and the same sign unless the digits are all zero.
SameNumber(s, t) == LitBody(s) = LitBody(t) /\ (LitNeg(s) = LitNeg(t) \/ AllZero(LitBody(s)))

Signed(neg, s) == IF neg THEN <<"-">> \o s ELSE s

\* s + 1 on a non-empty string of digits.
IncChars(s) ==
  LET low == {i \in 1..Len(s) : s[i] # "9"}
      k == CHOOSE i \in low : \A j \in low : j <= i
  IN IF low = {} THEN <<"1">> \o [i \in 1..Len(s) |-> "0"]
     ELSE [i \in 1..Len(s) |-> IF i < k THEN s[i]
                                ELSE IF i = k THEN DigitChar[DigitVal(s[k]) + 2]
                                ELSE "0"]

\* A string of digits without its superfluous leading zeros.
StripZeros(s) ==
  LET sig == {i \in 1..Len(s) : s[i] # "0"}
  IN IF sig = {} THEN <<"0">>
     ELSE SubSeq(s, CHOOSE i \in sig : \A j \in sig : i <= j, Len(s))

\* The numeral i.f cut after q fractional digits (filled with zeros up to q).
TruncChars(i, f, q) ==
  StripZeros(i) \o <<".">> \o [k \in 1..q |-> IF k <= Len(f) THEN f[k] ELSE "0"]

\* The numeral i.f rounded to q fractional digits, half away from zero: one
\* unit of the last kept digit is added when the first dropped digit is 5 or
\* more.
RoundChars(i, f, q) ==
  IF Len(f) <= q THEN TruncChars(i, f, q)
  ELSE LET keep == <<"0">> \o i \o SubSeq(f, 1, q)
           k == IF DigitVal(f[q + 1]) >= 5 THEN IncChars(keep) ELSE keep
       IN StripZeros(SubSeq(k, 1, Len(k) - q)) \o <<".">> \o SubSeq(k, Len(k) - q + 1, Len(k))

\* The numeral of the instance tf: the digits of its int, the last
\* precision + 1 of them behind the point.
StoredChars(tf) ==
  [i \in 1..Max(Len(tf.int.mag), tf.precision + 2) |->
     LET pad == Max(Len(tf.int.mag), tf.precision + 2) - Len(tf.int.mag)
     IN IF i <= pad THEN "0" ELSE DigitChar[tf.int.mag[i - pad] + 1]]

StoredInt(tf) == SubSeq(StoredChars(tf), 1, Len(StoredChars(tf)) - (tf.precision + 1))

StoredFrac(tf) ==
  SubSeq(StoredChars(tf), Len(StoredChars(tf)) - tf.precision, Len(StoredChars(tf)))

\* The calls new TinyFloat(literal, p) that returned an instance.
IsNewOf(i) ==
  /\ log[i].call.op = "new"
  /\ log[i].call.tf.kind = "string"
  /\ log[i].ret.kind = "TinyFloat"

\* The calls toString(q) on what call i returned.
IsRenderOf(j, i) ==
  /\ log[j].call.op = "toString"
  /\ log[i].ret.kind = "TinyFloat"
  /\ log[j].call.this = log[i].ret.ref

\* The precision call i constructs at, and the one call j renders at.
NewScale(i) == Nullish(log[i].call.precision, defaultPrecision)

RenderScale(j) == Nullish(log[j].call.precision, heap[log[j].call.this].precision)

(***************************************************************************)
(* Arithmetic.                                                             *)
(***************************************************************************)
\* C1: every add, sub, mul, div and mod that returns a value returns it at
\* the precision of its left operand (this), never at that of the right one.
ResultScaleIsLeft ==
  \A i \in Entries :
    log[i].call.op \in Arith /\ log[i].ret.kind = "TinyFloat"
      => heap[log[i].ret.ref].precision = heap[log[i].call.this].precision

\* A division has returned a value for a right operand of a higher precision
\* than the left one.
ResultScaleCase ==
  \E i \in Entries :
    /\ log[i].call.op = "div"
    /\ log[i].ret.kind = "TinyFloat"
    /\ log[i].call.tf.kind = "TinyFloat"
    /\ heap[log[i].call.tf.ref].precision > heap[log[i].call.this].precision

\* The right operand of call i is held exactly at the precision of the left
\* one: an instance of that precision, or a literal with no more fractional
\* digits than the int keeps.
ExactOperand(i) ==
  LET c == log[i].call
  IN IF c.tf.kind = "TinyFloat" THEN heap[c.tf.ref].precision = heap[c.this].precision
     ELSE WellFormed(c.tf.str) /\ Len(LitFrac(c.tf.str)) <= heap[c.this].precision + 1

\* The literal l in units of 10^-digits, read off its text.
LitValue(l, digits) ==
  LET s == LitInt(l) \o [k \in 1..digits |-> IF k <= Len(LitFrac(l)) THEN LitFrac(l)[k] ELSE "0"]
      v[i \in 0..Len(s)] == IF i = 0 THEN 0 ELSE v[i - 1] * 10 + DigitVal(s[i])
  IN IF LitNeg(l) THEN -v[Len(s)] ELSE v[Len(s)]

\* The call that made the instance at r.
Producer(r) ==
  CHOOSE i \in Entries :
    /\ log[i].ret.kind = "TinyFloat" /\ log[i].ret.ref = r
    /\ \A j \in 1..(i - 1) : ~(log[j].ret.kind = "TinyFloat" /\ log[j].ret.ref = r)

\* The int the instance at r has if every add and sub of exact operands
\* that led to it was exact: the signed sum of the ints the chain started from.
RECURSIVE ExactSum(_)
ExactSum(r) ==
  LET i == Producer(r)
      c == log[i].call
      operand == IF c.tf.kind = "TinyFloat" THEN ExactSum(c.tf.ref)
                 ELSE LitValue(c.tf.str, heap[c.this].precision + 1)
  IN IF c.op \in {"add", "sub"} /\ ExactOperand(i)
     THEN IF c.op = "add" THEN ExactSum(c.this) + operand ELSE ExactSum(c.this) - operand
     ELSE ToInt(heap[r].int)

\* C2: add and sub of operands at the same precision are exact, and so is a
\* chain of them: the int of the result is the signed sum of the ints of all
\* the operands, with no error accumulated.
AddSubExact == \A r \in 1..Len(heap) : ToInt(heap[r].int) = ExactSum(r)

\* An add and then a sub on its result, of non-zero operands of which one is
\* negative, to a non-zero result.
AddSubChain ==
  \E i, j \in Entries :
    /\ log[i].call.op = "add" /\ ExactOperand(i) /\ log[i].ret.kind = "TinyFloat"
    /\ log[j].call.op = "sub" /\ ExactOperand(j) /\ log[j].ret.kind = "TinyFloat"
    /\ log[j].call.this = log[i].ret.ref
    /\ log[i].call.tf.kind = "TinyFloat" /\ log[j].call.tf.kind = "string"
    /\ heap[log[i].call.this].int.neg
    /\ ExactSum(log[j].ret.ref) # ToInt(heap[log[i].call.this].int)
    /\ ExactSum(log[j].ret.ref) # 0

\* The right operand of call i is zero: an instance whose int is 0n, at any
\* precision, or a literal of zeros.
ZeroOperand(i) ==
  LET c == log[i].call
  IN IF c.tf.kind = "TinyFloat" THEN heap[c.tf.ref].int.mag = <<0>>
     ELSE WellFormed(c.tf.str) /\ AllZero(LitBody(c.tf.str))

\* C3: div and mod by an operand that is zero throw the division-by-zero
\* error (a RangeError) and return no value, whatever the left operand is.
DivByZeroThrows ==
  \A i \in Entries :
    log[i].call.op \in {"div", "mod"} /\ ZeroOperand(i)
      => log[i].ret.kind = "throw" /\ log[i].ret.err = "RangeError"

\* A negative instance has been divided by a zero instance of another
\* precision, and has thrown.
DivByZeroCase ==
  \E i \in Entries :
    /\ log[i].call.op = "div"
    /\ log[i].call.tf.kind = "TinyFloat"
    /\ ZeroOperand(i)
    /\ heap[log[i].call.this].int.neg
    /\ heap[log[i].call.tf.ref].precision # heap[log[i].call.this].precision
    /\ log[i].ret.kind = "throw"

(***************************************************************************)
(* Construction from a literal, and rendering.                             *)
(***************************************************************************)
\* C4: a call given a malformed literal (the empty string, more than one
\* point, a character that is no digit), be it new TinyFloat or an operation
\* with a literal operand, throws and returns no instance, wherever in the
\* literal the malformation is.
MalformedThrows ==
  \A i \in Entries :
    log[i].call.tf.kind = "string" /\ Malformed(log[i].call.tf.str)
      => log[i].ret.kind = "throw"

\* 1.5e has been constructed at precision 0, where the e lies behind the
\* digits parse keeps, and has been rendered: 2.
MalformedTailCase ==
  /\ Len(log) = 2
  /\ IsNewOf(1) /\ IsRenderOf(2, 1)
  /\ log[1].call.tf.str = <<"1", ".", "5", "e">>
  /\ log[1].call.precision = Some(0)
  /\ log[2].ret.str = <<"2", ".">>

\* C5: toString(q) renders, for every instance and every q, the stored value
\* rounded half away from zero to q fractional digits (filled with zeros
\* when q is beyond the digits stored).
RendersRounded ==
  \A j \in Entries :
    log[j].call.op = "toString"
      => LET tf == heap[log[j].call.this]
         IN SameNumber(log[j].ret.str,
                       Signed(tf.int.neg, RoundChars(StoredInt(tf), StoredFrac(tf), RenderScale(j))))

\* An instance of the value 4 at a precision of 0..MaxScale has been
\* rendered at FarScale, and not as 4 and zeros.
FarRenderCase ==
  /\ Len(log) = 2
  /\ IsNewOf(1) /\ IsRenderOf(2, 1)
  /\ log[1].call.tf.str = <<"4">>
  /\ log[2].call.precision = Some(FarScale)
  /\ log[2].ret.str # <<"4", ".">> \o repeat("0", FarScale)

NoNegativeZero ==
  \A i, j \in Entries :
    IsNewOf(i) /\ IsRenderOf(j, i) /\ WellFormed(log[i].call.tf.str) /\ AllZero(LitBody(log[j].ret.str))
      => ~LitNeg(log[j].ret.str)

\* -0.04 constructed at precision 1 has been rendered: -0.0.
NegativeZeroCase ==
  /\ Len(log) = 2
  /\ IsNewOf(1) /\ IsRenderOf(2, 1)
  /\ log[1].call.tf.str = <<"-", "0", ".", "0", "4">>
  /\ log[1].call.precision = Some(1)
  /\ log[2].ret.str = <<"-", "0", ".", "0">>

\* A literal with no more than p fractional digits has been constructed at
\* precision p and rendered at p.
IsRoundTrip(i, j) ==
  /\ IsNewOf(i) /\ IsRenderOf(j, i)
  /\ WellFormed(log[i].call.tf.str)
  /\ Len(LitFrac(log[i].call.tf.str)) <= NewScale(i)
  /\ RenderScale(j) = NewScale(i)

\* C8 as the specification words it: a literal with at most p fractional
\* digits, constructed at p and rendered at p, comes back as itself with its
\* fractional part filled with zeros up to p digits.
RoundTrip ==
  \A i, j \in Entries :
    IsRoundTrip(i, j)
      => LET l == log[i].call.tf.str
         IN log[j].ret.str = Signed(LitNeg(l), TruncChars(LitInt(l), LitFrac(l), NewScale(i)))

\* C8 as the code has it: the literal comes back as itself with its
\* fractional part filled with zeros up to p digits, except that a "-" in
\* front of a literal of zeros is not rendered.
RoundTripButMinusZero ==
  \A i, j \in Entries :
    IsRoundTrip(i, j)
      => LET l == log[i].call.tf.str
         IN log[j].ret.str = Signed(LitNeg(l) /\ ~AllZero(LitBody(l)),
                                    TruncChars(LitInt(l), LitFrac(l), NewScale(i)))

\* 12.34 has been constructed at the default precision and rendered.
RoundTripCase ==
  /\ Len(log) = 2
  /\ IsRoundTrip(1, 2)
  /\ log[1].call.tf.str = <<"1", "2", ".", "3", "4">>
  /\ log[1].call.precision = Undefined
  /\ log[2].ret.str = <<"1", "2", ".", "3", "4">> \o repeat("0", defaultPrecision - 2)

\* A literal with more than p fractional digits has been constructed at
\* precision p and rendered at p.
IsExcess(i, j) ==
  /\ IsNewOf(i) /\ IsRenderOf(j, i)
  /\ WellFormed(log[i].call.tf.str)
  /\ Len(LitFrac(log[i].call.tf.str)) > NewScale(i)
  /\ RenderScale(j) = NewScale(i)

ScaleLiterals == {l \in Literals : WellFormed(l)}

ConstructScales == OptScales \cup {Some(FarScale)}

RescaleTargets == Scales \cup {defaultPrecision, FarScale}

\* The changes of precision of the tests (tests.ts, CHANGELOG.md): the literal, the
\* precision it is constructed at and the one it is brought to.
ScaleExamples ==
  { [lit |-> <<"0", ".", "1", "2", "3", "4", "5", "6", "7", "8", "9">>, precision |-> Some(5), to |-> 3],
    [lit |-> <<"0", ".", "1", "2", "3", "4", "5", "6", "7", "8", "9">>, precision |-> Some(2), to |-> 5],
    [lit |-> <<"-", "0", ".", "1", "2", "3", "4", "5", "6", "7", "8", "9">>, precision |-> Some(2), to |-> 5],
    [lit |-> <<"0", ".", "1", "2", "3", "4", "5", "6", "7", "8", "9">>, precision |-> Undefined, to |-> 5],
    [lit |-> <<"0", ".", "1", "2", "3", "4", "5", "6", "7", "8", "9">>, precision |-> Undefined, to |-> 6] }

NextScale ==
  \/ Len(log) = 0 /\ \E l \in ScaleLiterals, p \in ConstructScales : New(ArgStr(l), p)
  \/ Len(log) = 0 /\ \E e \in ScaleExamples : New(ArgStr(e.lit), e.precision)
  \/ Len(log) = 1 /\ Len(log[1].call.tf.str) <= MaxLen
       /\ \E q \in RescaleTargets : WithPresicion(1, q)
  \/ Len(log) = 1
       /\ \E e \in ScaleExamples :
            /\ log[1].call.tf.str = e.lit /\ log[1].call.precision = e.precision
            /\ WithPresicion(1, e.to)
  \/ Len(log) = 2 /\ log[2].ret.ref # 1 /\ WithPresicion(log[2].ret.ref, heap[1].precision)
  \/ Len(log) = 2 /\ ToString(log[2].ret.ref, Undefined)

SpecScale == Init /\ [][NextScale]_vars

\* Call i is x.withPresicion(q) and has returned; x and q.
IsRescale(i) == log[i].call.op = "withPresicion" /\ log[i].ret.kind = "TinyFloat"

RescaleFrom(i) == heap[log[i].call.this]

RescaleTo(i) == log[i].call.precision[1]

\* The bigint a with n zeros appended to its digits: a * 10^n.
Upscaled(a, n) ==
  IF a.mag = <<0>> THEN a ELSE [neg |-> a.neg, mag |-> a.mag \o [k \in 1..n |-> 0]]

\* C13: x.withPresicion(q) is equivalent to x when q is the precision of x,
\* and for q above it has precision q and the int of x times 10^(q - p),
\* exactly, however far q lies above p.
RescaleUpExact ==
  \A i \in Entries :
    IsRescale(i) /\ RescaleTo(i) >= RescaleFrom(i).precision
      => /\ heap[log[i].ret.ref].precision = RescaleTo(i)
         /\ heap[log[i].ret.ref].int
              = Upscaled(RescaleFrom(i).int, RescaleTo(i) - RescaleFrom(i).precision)

\* 4 constructed at precision 0 has been brought to FarScale, and its int is
\* not 40 followed by FarScale zeros.
RescaleUpFarCase ==
  /\ Len(log) = 2
  /\ IsNewOf(1) /\ IsRescale(2)
  /\ log[1].call.tf.str = <<"4">> /\ log[1].call.precision = Some(0)
  /\ RescaleTo(2) = FarScale
  /\ heap[2].precision = FarScale
  /\ heap[2].int # Upscaled(heap[1].int, FarScale)

\* C14: x.withPresicion(q) for q below the precision of x has precision q
\* and renders as the value of x rounded half away from zero to q fractional
\* digits.
RescaleDownRounds ==
  \A i, j \in Entries :
    IsRescale(i) /\ RescaleTo(i) < RescaleFrom(i).precision /\ IsRenderOf(j, i)
      /\ log[j].call.precision = Undefined
      => /\ heap[log[i].ret.ref].precision = RescaleTo(i)
         /\ SameNumber(log[j].ret.str,
                       Signed(RescaleFrom(i).int.neg,
                              RoundChars(StoredInt(RescaleFrom(i)), StoredFrac(RescaleFrom(i)),
                                         RescaleTo(i))))

\* 0.5 constructed at FarScale has been brought to precision 0 and rendered:
\* 0, not 1.
RescaleDownFarCase ==
  /\ Len(log) = 3
  /\ IsNewOf(1) /\ IsRescale(2) /\ IsRenderOf(3, 2)
  /\ log[1].call.tf.str = <<"0", ".", "5">> /\ log[1].call.precision = Some(FarScale)
  /\ RescaleTo(2) = 0
  /\ log[3].ret.str = <<"0", ".">>

\* The last n digits of the bigint a are all 0.
EndsInZeros(a, n) ==
  \A k \in 1..n : k > Len(a.mag) \/ a.mag[Len(a.mag) + 1 - k] = 0

\* The bigint a with its last n digits replaced by zeros.
ZeroedEnd(a, n) ==
  LET mag == Norm([k \in 1..Len(a.mag) |-> IF k > Len(a.mag) - n THEN 0 ELSE a.mag[k]])
  IN [neg |-> a.neg /\ mag # <<0>>, mag |-> mag]

\* C15: x.withPresicion(s).withPresicion(p), for x of precision p and s
\* below p, has precision p and the int of x with the digits the first step
\* dropped replaced by zeros: it equals x exactly when those digits were 0.
DownUpLossy ==
  \A i, k \in Entries :
    ( /\ IsRescale(i) /\ RescaleTo(i) < RescaleFrom(i).precision
      /\ IsRescale(k) /\ log[k].call.this = log[i].ret.ref
      /\ RescaleTo(k) = RescaleFrom(i).precision )
      => LET x == RescaleFrom(i)
             z == heap[log[k].ret.ref]
             n == x.precision - RescaleTo(i)
         IN /\ z.precision = x.precision
            /\ z.int = ZeroedEnd(x.int, n)
            /\ (z = x) <=> EndsInZeros(x.int, n)

\* 5 constructed at FarScale has been brought to precision 0 and back, and
\* is not 5 any more though every digit dropped was 0.
DownUpFarCase ==
  /\ Len(log) = 3
  /\ IsNewOf(1) /\ IsRescale(2) /\ IsRescale(3)
  /\ log[1].call.tf.str = <<"5">> /\ log[1].call.precision = Some(FarScale)
  /\ RescaleTo(2) = 0 /\ RescaleTo(3) = FarScale
  /\ EndsInZeros(heap[1].int, FarScale)
  /\ heap[3].precision = FarScale
  /\ heap[3] # heap[1]

\* Call i has raised the precision of x and call j has rendered the result.
IsRaiseRendered(i, j) ==
  /\ IsRescale(i) /\ RescaleTo(i) > RescaleFrom(i).precision
  /\ IsRenderOf(j, i) /\ log[j].call.precision = Undefined

CopyIsVerbatim ==
  \A i \in Entries :
    log[i].call.op = "new" /\ log[i].call.tf.kind = "TinyFloat"
      => /\ log[i].ret.kind = "TinyFloat"
         /\ log[i].ret.ref # log[i].call.tf.ref
         /\ heap[log[i].ret.ref] = heap[log[i].call.tf.ref]

\* A non-zero instance has been copied with a precision argument other than
\* its own precision.
CopyCase ==
  \E i \in Entries :
    /\ log[i].call.op = "new" /\ log[i].call.tf.kind = "TinyFloat"
    /\ log[i].call.precision # Undefined
    /\ log[i].call.precision # Some(heap[log[i].call.tf.ref].precision)
    /\ heap[log[i].call.tf.ref].int.mag # <<0>>
    /\ log[i].ret.kind = "TinyFloat"

\* C12: no call, whether it returns or throws, changes the int or the
\* precision of an instance that exists when it is made; a call only adds
\* instances.
InstancesImmutable ==
  [][\A r \in 1..Len(heap) : Len(heap') >= r /\ heap'[r] = heap[r]]_vars

\* The instance constructed first has been the left and the right operand of
\* an add that returned and the left operand of a div that threw, and is
\* still what the constructor made of its literal.
ImmutableCase ==
  /\ Len(log) = 3
  /\ IsNewOf(1)
  /\ log[2].call.op = "add" /\ log[2].call.this = 1 /\ log[2].call.tf = ArgRef(1)
  /\ log[2].ret.kind = "TinyFloat"
  /\ log[3].call.op = "div" /\ log[3].call.this = 1 /\ log[3].ret.kind = "throw"
  /\ heap[1].int.mag # <<0>>
  /\ heap[1] = constructor(<<>>, log[1].call.tf, log[1].call.precision).val
  /\ heap[2] # heap[1]

(***************************************************************************)
(* Operands of another precision, literal operands, and mod.               *)
(***************************************************************************)
\* The bigint a without its last n digits: a / 10^n, cut toward zero.
DropEnd(a, n) ==
  IF Len(a.mag) <= n THEN BigZero
  ELSE [neg |-> a.neg, mag |-> SubSeq(a.mag, 1, Len(a.mag) - n)]

\* The right operand of call i in units of 10^-(p + 1), p being the precision
\* of the left operand: the digits of a literal up to digit p + 1, the int of
\* an instance with zeros appended or with the digits beyond p + 1 dropped.
OperandInt(i) ==
  LET c == log[i].call
      p == heap[c.this].precision
      y == heap[c.tf.ref]
  IN IF c.tf.kind = "string" THEN LitValue(c.tf.str, p + 1)
     ELSE IF y.precision <= p THEN ToInt(Upscaled(y.int, p - y.precision))
     ELSE ToInt(DropEnd(y.int, y.precision - p))

\* Call i is an operation with a well-formed literal or an instance on the
\* right, and has returned an instance.
IsValueOf(i, op) ==
  /\ log[i].call.op = op
  /\ log[i].ret.kind = "TinyFloat"
  /\ log[i].call.tf.kind = "string" => WellFormed(log[i].call.tf.str)

\* The number a numeral with p fractional digits denotes, in units of 10^-p.
NumeralInt(s) ==
  LET d == SelectSeq(LitBody(s), LAMBDA ch : ch # ".")
      v[k \in 0..Len(d)] == IF k = 0 THEN 0 ELSE v[k - 1] * 10 + DigitVal(d[k])
  IN IF LitNeg(s) THEN -v[Len(d)] ELSE v[Len(d)]

\* Call i is x.add(y) for an instance y of a higher precision than x.
IsAddOfFiner(i) ==
  /\ IsValueOf(i, "add")
  /\ log[i].call.tf.kind = "TinyFloat"
  /\ heap[log[i].call.tf.ref].precision > heap[log[i].call.this].precision

TruncRem(a, b) == IF a < 0 THEN -((-a) % Abs(b)) ELSE a % Abs(b)

\* The quotient of a by b cut toward zero.
TruncQuot(a, b) ==
  IF (a < 0) = (b < 0) THEN Abs(a) \div Abs(b) ELSE -(Abs(a) \div Abs(b))

\* C18: a.mod(b), for b not zero once brought to the precision of a, has
\* the int a.int rem b.int at that precision: it is zero or has the sign of
\* a, is smaller than b in absolute value, and trunc(a / b) * b plus it is a.
ModIsTruncRem ==
  \A i \in Entries :
    IsValueOf(i, "mod")
      => LET a == ToInt(heap[log[i].call.this].int)
             b == OperandInt(i)
             r == ToInt(heap[log[i].ret.ref].int)
         IN /\ b # 0
            /\ r = TruncRem(a, b)
            /\ r = 0 \/ (r < 0) = (a < 0)
            /\ Abs(r) < Abs(b)
            /\ a = TruncQuot(a, b) * b + r

\* A negative instance has been taken mod a positive one of another
\* precision, with a remainder that is not zero.
ModCase ==
  \E i \in Entries :
    /\ IsValueOf(i, "mod")
    /\ log[i].call.tf.kind = "TinyFloat"
    /\ heap[log[i].call.tf.ref].precision # heap[log[i].call.this].precision
    /\ heap[log[i].call.this].int.neg
    /\ ~heap[log[i].call.tf.ref].int.neg
    /\ heap[log[i].ret.ref].int.neg

\* x.op(tf) on heap h.
Apply(op, h, ref, tf) ==
  CASE op = "add" -> add(h, ref, tf)
    [] op = "sub" -> sub(h, ref, tf)
    [] op = "mul" -> mul(h, ref, tf)
    [] op = "div" -> div(h, ref, tf)
    [] op = "mod" -> mod(h, ref, tf)

\* C20: x.op(s) for a well-formed literal s returns what
\* x.op(new TinyFloat(s, precision of x)) returns, int and precision, and
\* throws exactly when that throws.
LiteralOperandIsParsedAtLeft ==
  \A i \in Entries :
    log[i].call.op \in Arith /\ log[i].call.tf.kind = "string" /\ WellFormed(log[i].call.tf.str)
      => LET x == log[i].call.this
             y == constructor(heap, log[i].call.tf, Some(heap[x].precision))
             m == Apply(log[i].call.op, Append(heap, y.val), x, ArgRef(Len(heap) + 1))
         IN /\ y.err = ""
            /\ (m.err # "") = (log[i].ret.kind = "throw")
            /\ m.err # "" => m.err = log[i].ret.err
            /\ m.err = "" => m.heap[m.ref] = heap[log[i].ret.ref]

\* An instance of precision 0 has been multiplied by the literal -1.25,
\* which has more fractional digits than the instance stores.
LiteralOperandCase ==
  \E i \in Entries :
    /\ IsValueOf(i, "mul")
    /\ log[i].call.tf = ArgStr(<<"-", "1", ".", "2", "5">>)
    /\ heap[log[i].call.this].precision = 0
    /\ heap[log[i].ret.ref].int.mag # <<0>>

(***************************************************************************)
(* mul and div of exact products: a value is built, then a second value of *)
(* the same precision, and the first is multiplied or divided by the       *)
(* second; or the first is multiplied (divided) by a literal and the       *)
(* result divided (multiplied) by the same literal.                        *)
(***************************************************************************)
\* The numbers of the mul and div tests (6, 2, 3, 1.23456789, 0.2,
\* 6.17283945), with their negations, zero, and short fractions that are
\* exact at the precisions of Scales.
InverseLiterals ==
  {<<"0">>,
   <<"1">>,
   <<"2">>,
   <<"3">>,
   <<"6">>,
   <<"-", "2">>,
   <<"-", "3">>,
   <<"-", "6">>,
   <<"0", ".", "2">>,
   <<"0", ".", "5">>,
   <<"0", ".", "6">>,
   <<"-", "0", ".", "5">>,
   <<"1", ".", "5">>,
   <<"1", ".", "2", "3", "4", "5", "6", "7", "8", "9">>,
   <<"6", ".", "1", "7", "2", "8", "3", "9", "4", "5">>}

NextInverse ==
  \/ Len(log) = 0 /\ \E l \in InverseLiterals, p \in ConstructScales : New(ArgStr(l), p)
  \/ Len(log) = 1 /\ \E l \in InverseLiterals : New(ArgStr(l), Some(heap[1].precision))
  \/ Len(log) = 1 /\ \E l \in InverseLiterals : Div(1, ArgStr(l))
  \/ Len(log) = 1 /\ \E l \in InverseLiterals : Mul(1, ArgStr(l))
  \/ Len(log) = 2 /\ log[2].call.op = "new" /\ Div(1, ArgRef(2))
  \/ Len(log) = 2 /\ log[2].call.op = "new" /\ Mul(1, ArgRef(2))
  \/ Len(log) = 2 /\ log[2].call.op = "div" /\ log[2].ret.kind = "TinyFloat"
       /\ Mul(log[2].ret.ref, log[2].call.tf)
  \/ Len(log) = 2 /\ log[2].call.op = "mul" /\ Div(log[2].ret.ref, log[2].call.tf)

SpecInverse == Init /\ [][NextInverse]_vars

\* The int of the right operand of call i, an instance of the left operand's
\* precision or a literal parsed at it.
RightInt(i) ==
  LET c == log[i].call
  IN IF c.tf.kind = "string" THEN parse(c.tf.str, heap[c.this].precision).val
     ELSE heap[c.tf.ref].int

\* Call i is x.op(y) for values x and y of one precision, y a well-formed
\* literal or an instance, and has returned an instance.
IsSameScale(i, op) ==
  /\ IsValueOf(i, op)
  /\ log[i].call.tf.kind = "TinyFloat"
       => heap[log[i].call.tf.ref].precision = heap[log[i].call.this].precision

\* The values of one precision p: the ints the literals have at p.
ValuesAt(p) == {parse(l, p).val : l \in InverseLiterals}

\* a = b * c for the values the ints a, b, c are at precision p, each in
\* units of 10^-(p + 1).
IsProduct(a, b, c, p) == BigMul(a, BigPow10(p + 1)) = BigMul(b, c)

\* C19: for values a, b, c of one precision with b non-zero and a = b * c
\* exactly, a.div(b) has the int and the precision of c, and c.mul(b) has the
\* int and the precision of a.
MulDivInverse ==
  \A i \in Entries :
    LET x == heap[log[i].call.this]
        r == heap[log[i].ret.ref]
    IN /\ IsSameScale(i, "div")
            => \A c \in ValuesAt(x.precision) :
                 IsProduct(x.int, RightInt(i), c, x.precision)
                   => r.int = c /\ r.precision = x.precision
       /\ IsSameScale(i, "mul") /\ ~BigIsZero(RightInt(i))
            => \A a \in ValuesAt(x.precision) :
                 IsProduct(a, RightInt(i), x.int, x.precision)
                   => r.int = a /\ r.precision = x.precision

\* 6 at precision FarScale has been divided by 2 at precision FarScale.
MulDivFarCase ==
  \E i \in Entries :
    /\ IsSameScale(i, "div")
    /\ heap[log[i].call.this].precision = FarScale
    /\ log[i].call.tf.kind = "TinyFloat"
    /\ IsNewOf(1) /\ log[1].call.tf.str = <<"6">>
    /\ IsNewOf(2) /\ log[2].call.tf.str = <<"2">>

(***************************************************************************)
(* Numbers in the place of literals: a value is built from a number or a   *)
(* literal, then a number is passed to it as an operand.                   *)
(***************************************************************************)
\* The numbers 0, 0.1, -0.1, 0.2, -1, 2, 6 and 0.5, each as String(n).
Numbers ==
  {<<"0">>, <<"0", ".", "1">>, <<"-", "0", ".", "1">>, <<"0", ".", "2">>,
   <<"-", "1">>, <<"2">>, <<"6">>, <<"0", ".", "5">>}

NextNum ==
  \/ Len(log) = 0 /\ \E n \in Numbers, p \in OptScales : New(ArgNum(n), p)
  \/ Len(log) = 0 /\ \E n \in Numbers, p \in OptScales : New(ArgStr(n), p)
  \/ Len(log) = 1 /\ heap # <<>> /\ \E n \in Numbers : Add(1, ArgNum(n))
  \/ Len(log) = 1 /\ heap # <<>> /\ \E n \in Numbers : Sub(1, ArgNum(n))
  \/ Len(log) = 1 /\ heap # <<>> /\ \E n \in Numbers : Mul(1, ArgNum(n))
  \/ Len(log) = 1 /\ heap # <<>> /\ \E n \in Numbers : Div(1, ArgNum(n))
  \/ Len(log) = 1 /\ heap # <<>> /\ \E n \in Numbers : Mod(1, ArgNum(n))

SpecNum == Init /\ [][NextNum]_vars

\* What the call c returns on heap h when it is made on h: the instance or the
\* error, for a construction or an arithmetic operation.
Outcome(h, c) ==
  IF c.op = "new"
  THEN LET k == constructor(h, c.tf, c.precision)
       IN IF k.err # "" THEN [err |-> k.err, val |-> k.val] ELSE [err |-> "", val |-> k.val]
  ELSE LET m == Apply(c.op, h, c.this, c.tf)
       IN IF m.err # "" THEN [err |-> m.err, val |-> h[c.this]]
          ELSE [err |-> "", val |-> m.heap[m.ref]]

\* The heap call i was made on: a call that returned an instance appended it.
HeapBefore(i) ==
  IF log[i].ret.kind = "TinyFloat" THEN SubSeq(heap, 1, log[i].ret.ref - 1) ELSE heap

\* Call i passes a number as the value to build or as the operand.
IsNumberCall(i) ==
  /\ log[i].call.op \in Arith \cup {"new"}
  /\ log[i].call.tf.kind = "number"

\* C21: a construction from a number n, or an operation with the operand n,
\* throws nothing and returns the instance that the same call with the literal
\* String(n) returns.
NumberIsItsLiteral ==
  \A i \in Entries :
    IsNumberCall(i)
      => LET c == log[i].call
             o == Outcome(HeapBefore(i), [c EXCEPT !.tf = ArgStr(c.tf.str)])
         IN /\ log[i].ret.kind = "TinyFloat"
            /\ o.err = ""
            /\ heap[log[i].ret.ref] = o.val

\* A value has been constructed from the number 0.1: the call is in the log.
NumberCase ==
  \E i \in Entries :
    /\ IsNumberCall(i)
    /\ log[i].call.op = "new"
    /\ log[i].call.tf.str = <<"0", ".", "1">>

(***************************************************************************)
(* mul, div and mod, rendered: a value is built, then multiplied, divided  *)
(* or reduced by a literal or by a second value of any precision, and the  *)
(* product or the quotient is rendered.                                    *)
(***************************************************************************)
\* Zero, whole numbers and fractions of both signs, and 0.07, whose digits
\* lie beyond the ones a precision of 0 stores.
ProductLiterals ==
  {<<"0">>,
   <<"2">>,
   <<"3">>,
   <<"-", "6">>,
   <<"0", ".", "5">>,
   <<"-", "0", ".", "5">>,
   <<"1", ".", "5">>,
   <<"-", "1", ".", "2", "5">>,
   <<"0", ".", "0", "7">>}

NextProduct ==
  \/ Len(log) = 0 /\ \E l \in ProductLiterals, p \in ConstructScales : New(ArgStr(l), p)
  \/ Len(log) = 1 /\ \E l \in ProductLiterals, p \in ConstructScales : New(ArgStr(l), p)
  \/ Len(log) = 1 /\ \E l \in ProductLiterals : Mul(1, ArgStr(l))
  \/ Len(log) = 1 /\ \E l \in ProductLiterals : Div(1, ArgStr(l))
  \/ Len(log) = 1 /\ \E l \in ProductLiterals : Mod(1, ArgStr(l))
  \/ Len(log) = 2 /\ log[2].call.op = "new" /\ Mul(1, ArgRef(2))
  \/ Len(log) = 2 /\ log[2].call.op = "new" /\ Div(1, ArgRef(2))
  \/ Len(log) = 2 /\ log[2].call.op = "new" /\ Mod(1, ArgRef(2))
  \/ Len(log) = 2 /\ log[2].call.op \in {"mul", "div"} /\ log[2].ret.kind = "TinyFloat"
       /\ ToString(log[2].ret.ref, Undefined)

SpecProduct == Init /\ [][NextProduct]_vars

\* The literal l cut to digits fractional digits, in units of 10^-digits.
LitBig(l, digits) ==
  LET t == LitInt(l) \o [k \in 1..digits |-> IF k <= Len(LitFrac(l)) THEN LitFrac(l)[k] ELSE "0"]
  IN Big(LitNeg(l), Norm([k \in 1..Len(t) |-> DigitVal(t[k])]))

\* The value of the right operand of call i at the left operand's precision
\* p, in units of 10^-(p + 1): the digits of a literal up to digit p + 1, the
\* int of an instance with zeros appended or with the digits beyond p + 1
\* dropped.
OperandBig(i) ==
  LET c == log[i].call
      p == heap[c.this].precision
      y == heap[c.tf.ref]
  IN IF c.tf.kind = "string" THEN LitBig(c.tf.str, p + 1)
     ELSE IF y.precision <= p THEN Upscaled(y.int, p - y.precision)
     ELSE DropEnd(y.int, y.precision - p)

\* |a|
BigAbs(a) == Big(FALSE, a.mag)

\* a * b for a and b in units of 10^-(p + 1), rounded half away from zero to
\* units of 10^-p.
RoundedProduct(a, b, p) ==
  LET m == BigAbs(BigMul(a, b))
      half == BigMul(BigFive, BigPow10(p + 1))
  IN Big(a.neg # b.neg, BigDiv(BigAdd(m, half), BigPow10(p + 2)).mag)

\* a / b rounded half away from zero to units of 10^-p, for b # 0:
\* the whole part of (2 |a| 10^p + |b|) / (2 |b|), with the sign of a / b.
RoundedQuotient(a, b, p) ==
  LET two == Big(FALSE, <<2>>)
      num == BigAdd(BigMul(two, BigMul(BigAbs(a), BigPow10(p))), BigAbs(b))
  IN Big(a.neg # b.neg, BigDiv(num, BigMul(two, BigAbs(b))).mag)

\* The number a numeral denotes, in units of its last digit.
Rendered(s) == StringToBigInt(SelectSeq(s, LAMBDA ch : ch # ".")).val

\* Entry j renders, at its own precision, what call i returned.
IsOwnRenderOf(j, i) == IsRenderOf(j, i) /\ log[j].call.precision = Undefined

\* C22: for a of precision p and b brought to p, a.mul(b) has precision p and
\* the int a.int * b.int / 10^(p + 1), cut toward zero, and renders as the
\* exact product of the two values rounded half away from zero to p digits,
\* whatever the signs.
MulRoundsProduct ==
  \A i \in Entries :
    IsValueOf(i, "mul")
      => LET x == heap[log[i].call.this]
             b == OperandBig(i)
             r == heap[log[i].ret.ref]
         IN /\ r.precision = x.precision
            /\ r.int = BigDiv(BigMul(x.int, b), BigPow10(x.precision + 1))
            /\ Rendered(toString(r, Undefined)) = RoundedProduct(x.int, b, x.precision)
            /\ \A j \in Entries : IsOwnRenderOf(j, i) => log[j].ret.str = toString(r, Undefined)

\* 3 at precision FarScale has been multiplied by 2 and the product rendered.
MulFarCase ==
  \E i, j \in Entries :
    /\ IsValueOf(i, "mul")
    /\ IsOwnRenderOf(j, i)
    /\ heap[log[i].call.this].precision = FarScale
    /\ IsNewOf(1) /\ log[1].call.tf.str = <<"3">>
    /\ log[i].call.tf = ArgStr(<<"2">>)

\* C23: for a of precision p and b brought to p and not zero, a.div(b) has
\* precision p and the int a.int * 10^(p + 1) / b.int, cut toward zero, and
\* renders as the exact quotient of the two values rounded half away from
\* zero to p digits, whatever the signs.
DivRoundsQuotient ==
  \A i \in Entries :
    IsValueOf(i, "div") /\ ~BigIsZero(OperandBig(i))
      => LET x == heap[log[i].call.this]
             b == OperandBig(i)
             r == heap[log[i].ret.ref]
         IN /\ r.precision = x.precision
            /\ r.int = BigDiv(BigMul(x.int, BigPow10(x.precision + 1)), b)
            /\ Rendered(toString(r, Undefined)) = RoundedQuotient(x.int, b, x.precision)
            /\ \A j \in Entries : IsOwnRenderOf(j, i) => log[j].ret.str = toString(r, Undefined)

\* -6 at precision FarScale has been divided by 3 and the quotient rendered.
DivFarCase ==
  \E i, j \in Entries :
    /\ IsValueOf(i, "div")
    /\ IsOwnRenderOf(j, i)
    /\ heap[log[i].call.this].precision = FarScale
    /\ IsNewOf(1) /\ log[1].call.tf.str = <<"-", "6">>
    /\ log[i].call.tf = ArgStr(<<"3">>)

\* C25: x.div(y) and x.mod(y) throw a RangeError exactly when y, brought to
\* the precision of x, is zero, and return a value otherwise: a y that is not
\* zero but has none of the digits x's precision stores throws as zero does.
ZeroAfterConversionThrows ==
  \A i \in Entries :
    /\ log[i].call.op \in {"div", "mod"}
    /\ log[i].call.tf.kind = "string" => WellFormed(log[i].call.tf.str)
    => IF BigIsZero(OperandBig(i))
       THEN log[i].ret.kind = "throw" /\ log[i].ret.err = "RangeError"
       ELSE log[i].ret.kind = "TinyFloat"

\* 0.07 at the default precision, whose int is not zero, has been the
\* divisor of a value of precision 0, and the call has thrown.
TruncatedToZeroCase ==
  \E i \in Entries :
    /\ log[i].call.op \in {"div", "mod"}
    /\ log[i].call.tf.kind = "TinyFloat"
    /\ heap[log[i].call.tf.ref].precision = defaultPrecision
    /\ ~BigIsZero(heap[log[i].call.tf.ref].int)
    /\ heap[log[i].call.this].precision = 0
    /\ log[i].ret.kind = "throw"

(***************************************************************************)
(* Rendering at a precision and rescaling to it.                           *)
(***************************************************************************)
\* C24: what x.withPresicion(q).toString() returns is what x.toString(q)
\* returns, for q below, at and above the precision of x, and x is afterwards
\* the instance it was constructed as.
RenderAgreesWithRescale ==
  \A i, j \in Entries :
    IsRescale(i) /\ IsNewOf(1) /\ log[i].call.this = 1 /\ IsOwnRenderOf(j, i)
      => /\ log[j].ret.str = toString(heap[1], Some(RescaleTo(i)))
         /\ heap[1] = constructor(<<>>, log[1].call.tf, log[1].call.precision).val

\* A value has been brought to a lower precision, which has cut digits that
\* are not zero, and the outcome has been rendered.
RenderOfReducedCase ==
  \E i, j \in Entries :
    /\ IsRescale(i) /\ IsNewOf(1) /\ log[i].call.this = 1 /\ IsOwnRenderOf(j, i)
    /\ RescaleTo(i) < heap[1].precision
    /\ heap[1].precision - RescaleTo(i) <= 22
    /\ Upscaled(heap[log[i].ret.ref].int, heap[1].precision - RescaleTo(i)) # heap[1].int

====
